---- MODULE Spec2Model ----
(***************************************************************************)
(* EasyElective (easyelective.py): the election loop of main(), the        *)
(* session acquisition, the course directory fetch, the CAPTCHA gate and   *)
(* the election action, as one sequential state machine.  The portal is    *)
(* the environment: every request the program sends is answered by one of  *)
(* the kinds of response the code tells apart.                             *)
(***************************************************************************)
EXTENDS Integers, Sequences, FiniteSets, TLC

\* ------------------------------------------------------------------ bounds
\* rows of targets.csv
MaxTargets == 2
\* rows of the course table the portal returns
MaxCourses == 2
\* consecutive rejected CAPTCHA answers within one elect() call
MaxRejects == 1
\* sessions the portal lets expire during a run
MaxExpiries == 1

\* ------------------------------------------------------------ input values
\* A classID is text; it is kept as the sequence of its decimal digits.
TA == [courseName |-> "A", classID |-> <<0, 7>>, college |-> "X"]
TB == [courseName |-> "B", classID |-> <<7>>, college |-> "X"]
TargetSet == {TA, TB}

MkCourse(n, id, col, m, u) ==
    [name |-> n, classID |-> id, college |-> col,
     max_slots |-> m, used_slots |-> u, elect_address |-> <<n, id, col>>]

CourseSet ==
    { MkCourse(n, <<7>>, "X", 1, u) : n \in {"A", "B"}, u \in {0, 1} }
        \cup { MkCourse("A", <<8>>, "X", 1, 0), MkCourse("A", <<7>>, "Y", 1, 0) }

SeqsUpTo(S, n) == UNION { [1..k -> S] : k \in 0..n }

Range(s) == { s[i] : i \in 1..Len(s) }

NoTarget == [courseName |-> "", classID |-> <<>>, college |-> ""]
NoCourse == MkCourse("", <<>>, "", 0, 0)

\* ---------------------------------------------------------- pure functions
\* int(text) of a string of decimal digits
RECURSIVE int(_)
int(s) ==
    IF Len(s) = 0 THEN 0
    ELSE 10 * int(SubSeq(s, 1, Len(s) - 1)) + s[Len(s)]

\* mutant of MatchesTarget: the classID texts are compared as they are
MatchesTargetText(c, t) ==
    /\ c.name = t.courseName
    /\ c.classID = t.classID
    /\ c.college = t.college

\* the three filters of the list comprehension that builds search_result
MatchesTarget(c, t) ==
    /\ c.name = t.courseName
    /\ int(c.classID) = int(t.classID)
    /\ c.college = t.college

SearchResult(cs, t) == SelectSeq(cs, LAMBDA c : MatchesTarget(c, t))

\* mutant of Electable: a full course passes the test
ElectableOrFull(c) == c.used_slots <= c.max_slots

\* the test that guards elect(): used_slots < max_slots
Electable(c) == c.used_slots < c.max_slots

\* list.remove(x): drops the first element equal to x (x must occur)
RECURSIVE ListRemove(_, _)
ListRemove(s, x) ==
    IF s = <<>> THEN <<>>
    ELSE IF Head(s) = x THEN Tail(s)
    ELSE <<Head(s)>> \o ListRemove(Tail(s), x)

\* ------------------------------------------------------------------- state
VARIABLES
    targets,          \* the working target list
    session_expired,  \* main's flag: TRUE = no usable session
    sess,             \* serial number of the session object held (0 = none)
    courses,          \* the directory of the last successful get_courses
    idx,              \* position of the iterator of `for target in targets`
    target,           \* loop variable of the outer for
    search_result,    \* the matches of target
    cidx,             \* position of the iterator of `for course in search_result`
    course,           \* loop variable of the inner for
    depth,            \* nested solve_captcha calls below the first
    pc,               \* where main is
    exc,              \* the exception that left main uncaught ("none")
    event,            \* what the last step did
    op,               \* the last request sent to the portal, and its session
    expired,          \* serials of the sessions found expired
    elected,          \* targets whose elect() returned normally
    attempts,         \* elect() calls per target since the last fetch
    removals,         \* targets.remove(t) calls per target over the run
    atFetch,          \* the target list when the directory was last fetched
    slept,            \* sleep(10) has run since the last request to the portal
    sinceFetch,       \* whether sleep(10) has run since the last get_courses call
    examined          \* targets whose search_result was built since the last fetch

vars == <<targets, session_expired, sess, courses, idx, target, search_result,
          cidx, course, depth, pc, exc, event, op, expired, elected, attempts,
          removals, atFetch, slept, sinceFetch, examined>>

loopVars == <<idx, target, search_result, cidx, course>>

Zero == [t \in TargetSet |-> 0]

Init ==
    /\ targets \in SeqsUpTo(TargetSet, MaxTargets)
    /\ session_expired = TRUE
    /\ sess = 0
    /\ courses = <<>>
    /\ idx = 0
    /\ target = NoTarget
    /\ search_result = <<>>
    /\ cidx = 0
    /\ course = NoCourse
    /\ depth = 0
    /\ pc = "while"
    /\ exc = "none"
    /\ event = "start"
    /\ op = [kind |-> "none", sess |-> 0]
    /\ expired = {}
    /\ elected = {}
    /\ attempts = Zero
    /\ removals = Zero
    /\ atFetch = <<>>
    /\ slept = FALSE
    /\ sinceFetch = "no_fetch_yet"
    /\ examined = {}

\* ------------------------------------------------------ exception handlers
\* an exception no except clause of main names: it leaves main
\* (logger.catch logs it and main returns)
Uncaught(e) ==
    /\ pc' = "crashed"
    /\ exc' = e
    /\ event' = "uncaught"
    /\ UNCHANGED <<targets, session_expired, expired, removals>>

\* mutant of SessionExpiredHandler: the handler also drops the current target
SessionExpiredDropsTarget ==
    /\ session_expired' = TRUE
    /\ expired' = expired \cup {sess}
    /\ pc' = "sleep"
    /\ event' = "session_expired"
    /\ targets' = ListRemove(targets, target)
    /\ UNCHANGED <<removals, exc>>

\* mutant of SessionExpiredHandler: the handler forgets to set the flag
SessionExpiredKeepsFlag ==
    /\ session_expired' = session_expired
    /\ expired' = expired \cup {sess}
    /\ pc' = "sleep"
    /\ event' = "session_expired"
    /\ UNCHANGED <<targets, removals, exc>>

\* except SessionExpiredError (lines 258-262)
SessionExpiredHandler ==
    /\ session_expired' = TRUE
    /\ expired' = expired \cup {sess}
    /\ pc' = "sleep"
    /\ event' = "session_expired"
    /\ UNCHANGED <<targets, removals, exc>>

\* mutant of NetworkErrorHandler: the handler goes back to the head of the
\* loop (a `continue`), past the sleep of line 271
NetworkErrorContinues ==
    /\ pc' = "while"
    /\ event' = "network_error"
    /\ UNCHANGED <<targets, session_expired, expired, removals, exc>>

\* except NetworkError (lines 268-270)
NetworkErrorHandler ==
    /\ pc' = "sleep"
    /\ event' = "network_error"
    /\ UNCHANGED <<targets, session_expired, expired, removals, exc>>

\* targets.remove(target): ValueError when target is no longer in the list
RemoveTarget(next_pc) ==
    /\ removals' = [removals EXCEPT ![target] = @ + 1]
    /\ IF target \in Range(targets)
       THEN /\ targets' = ListRemove(targets, target)
            /\ pc' = next_pc
            /\ exc' = exc
       ELSE /\ targets' = targets
            /\ pc' = "crashed"
            /\ exc' = "ValueError"

\* except IllegalOperationError (lines 263-267)
IllegalOperationHandler ==
    /\ event' = "illegal"
    /\ RemoveTarget("sleep")
    /\ UNCHANGED <<session_expired, expired>>

\* ----------------------------------------------------------------- actions
\* the portal requests: each records itself in op and ends the idle period
Request(kind, s) ==
    /\ op' = [kind |-> kind, sess |-> s]
    /\ slept' = FALSE

\* mutant of WhileTargets: the inner `while session_expired` is missing
WhileTargetsNoLogin ==
    /\ pc = "while"
    /\ pc' = IF targets = <<>> THEN "done" ELSE "fetch"
    /\ UNCHANGED <<targets, session_expired, sess, courses, loopVars, depth,
                   exc, event, op, expired, elected, attempts, removals,
                   atFetch, slept, sinceFetch, examined>>

\* `while targets:` (line 212), then `while session_expired:` (line 213)
WhileTargets ==
    /\ pc = "while"
    /\ pc' = IF targets = <<>> THEN "done"
             ELSE IF session_expired THEN "login" ELSE "fetch"
    /\ UNCHANGED <<targets, session_expired, sess, courses, loopVars, depth,
                   exc, event, op, expired, elected, attempts, removals,
                   atFetch, slept, sinceFetch, examined>>

\* get_elective_session(username, password) and its three except clauses
LoginOk ==
    /\ sess' = sess + 1
    /\ session_expired' = FALSE
    /\ pc' = "fetch"
    /\ event' = "got_session"
    /\ UNCHANGED <<targets, expired, removals, exc>>

\* mutant of LoginAuthenticationError: the failure is retried like a
\* network failure
LoginAuthenticationRetried ==
    /\ pc' = "backoff"
    /\ event' = "auth_error"
    /\ UNCHANGED <<targets, session_expired, sess, expired, removals, exc>>

LoginAuthenticationError ==
    /\ pc' = "fatal"
    /\ event' = "auth_error"
    /\ UNCHANGED <<targets, session_expired, sess, expired, removals, exc>>

\* mutant of LoginNetworkError: acquisition is tried again at once, without
\* the sleep of line 227
LoginNetworkErrorNoBackoff ==
    /\ pc' = "login"
    /\ event' = "login_network_error"
    /\ UNCHANGED <<targets, session_expired, sess, expired, removals, exc>>

LoginNetworkError ==
    /\ pc' = "backoff"
    /\ event' = "login_network_error"
    /\ UNCHANGED <<targets, session_expired, sess, expired, removals, exc>>

Login ==
    /\ pc = "login"
    /\ Request("login", 0)
    /\ \/ LoginOk
       \/ LoginAuthenticationError
       \/ LoginNetworkError
       \* r.json() on a body that is not JSON (line 77, outside any try)
       \/ Uncaught("ValueError") /\ sess' = sess
    /\ UNCHANGED <<courses, loopVars, depth, elected, attempts, atFetch,
                   sinceFetch, examined>>

\* sinceFetch after a sleep(10)
Idled == IF sinceFetch = "no_fetch_yet" THEN "no_fetch_yet" ELSE "idled"

\* sleep(10) of line 227, then the inner while again
Backoff ==
    /\ pc = "backoff"
    /\ pc' = "login"
    /\ slept' = TRUE
    /\ event' = "backoff"
    /\ sinceFetch' = Idled
    /\ UNCHANGED <<targets, session_expired, sess, courses, loopVars, depth,
                   exc, op, expired, elected, attempts, removals, atFetch,
                   examined>>

\* courses = get_courses(sess) (line 231)
FetchOk ==
    /\ \E cs \in SeqsUpTo(CourseSet, MaxCourses) : courses' = cs
    /\ idx' = 0
    /\ attempts' = Zero
    /\ atFetch' = targets
    /\ pc' = "for"
    /\ event' = "fetched"
    /\ UNCHANGED <<targets, session_expired, expired, removals, exc>>

Fetch ==
    /\ pc = "fetch"
    /\ Request("fetch", sess)
    /\ \/ FetchOk
       \/ /\ \/ NetworkErrorHandler
             \* ValueError or AttributeError while parsing (lines 148-150)
             \/ Cardinality(expired) < MaxExpiries /\ SessionExpiredHandler
             \* a row with fewer cells, or a cell without a link: IndexError,
             \* TypeError, which line 148 does not name
             \/ Uncaught("IndexError")
          /\ UNCHANGED <<courses, idx, attempts, atFetch>>
    /\ sinceFetch' = "not_idled"
    /\ examined' = {}
    /\ UNCHANGED <<sess, target, search_result, cidx, course, depth, elected>>

\* one step of `for target in targets:` up to the inner for (lines 232-248)
NotFound ==
    /\ event' = "not_found"
    /\ targets' = ListRemove(targets, target')
    /\ removals' = [removals EXCEPT ![target'] = @ + 1]
    /\ pc' = "for"

ForTarget ==
    /\ pc = "for"
    /\ IF idx < Len(targets)
       THEN /\ idx' = idx + 1
            /\ target' = targets[idx + 1]
            /\ search_result' = SearchResult(courses, target')
            /\ cidx' = 0
            /\ examined' = examined \cup {target'}
            /\ IF search_result' = <<>>
               THEN NotFound
               ELSE /\ pc' = "inner"
                    /\ event' = "found"
                    /\ UNCHANGED <<targets, removals>>
       ELSE /\ pc' = "sleep"
            /\ event' = "iteration_done"
            /\ UNCHANGED <<idx, target, search_result, cidx, targets, removals,
                           examined>>
    /\ UNCHANGED <<session_expired, sess, courses, course, depth, exc, op,
                   expired, elected, attempts, atFetch, slept, sinceFetch>>

\* one step of `for course in search_result:` up to the call of elect
ForCourse ==
    /\ pc = "inner"
    /\ IF cidx < Len(search_result)
       THEN /\ cidx' = cidx + 1
            /\ course' = search_result[cidx + 1]
            /\ IF Electable(course')
               THEN /\ pc' = "captcha_get"
                    /\ event' = "attempt"
                    /\ attempts' = [attempts EXCEPT ![target] = @ + 1]
               ELSE /\ pc' = "inner"
                    /\ event' = "full"
                    /\ attempts' = attempts
       ELSE /\ pc' = "for"
            /\ UNCHANGED <<cidx, course, event, attempts>>
    /\ depth' = 0
    /\ UNCHANGED <<targets, session_expired, sess, courses, idx, target,
                   search_result, exc, op, expired, elected, removals, atFetch,
                   slept, sinceFetch, examined>>

\* solve_captcha: session.get(request_captcha_url) (line 159)
CaptchaGet ==
    /\ pc = "captcha_get"
    /\ Request("captcha_get", sess)
    /\ \/ /\ pc' = "captcha_post"
          /\ event' = "captcha_image"
          /\ UNCHANGED <<targets, session_expired, expired, removals, exc>>
       \* no try around the request: requests' exception leaves main
       \/ Uncaught("RequestException")
    /\ UNCHANGED <<sess, courses, loopVars, depth, elected, attempts, atFetch,
                   sinceFetch, examined>>

\* resp.json()["valid"] == "2": solve_captcha returns (line 170)
CaptchaAccepted ==
    /\ pc' = "elect"
    /\ event' = "captcha_ok"
    /\ depth' = depth
    /\ UNCHANGED <<targets, session_expired, expired, removals, exc>>

\* mutant of CaptchaRejected: a rejected answer is not retried and elect
\* goes on to the election request
CaptchaRejectedProceeds ==
    /\ depth < MaxRejects
    /\ depth' = depth + 1
    /\ pc' = "elect"
    /\ event' = "captcha_rejected"
    /\ UNCHANGED <<targets, session_expired, expired, removals, exc>>

\* valid != "2": solve_captcha calls itself (line 171)
CaptchaRejected ==
    /\ depth < MaxRejects
    /\ depth' = depth + 1
    /\ pc' = "captcha_get"
    /\ event' = "captcha_rejected"
    /\ UNCHANGED <<targets, session_expired, expired, removals, exc>>

\* solve_captcha: session.post(submit_url, ...) and the test of the answer
CaptchaPost ==
    /\ pc = "captcha_post"
    /\ Request("captcha_post", sess)
    /\ \/ CaptchaAccepted
       \/ CaptchaRejected
       \/ /\ depth' = depth
          /\ \* resp.json() raises ValueError
             \/ Cardinality(expired) < MaxExpiries /\ SessionExpiredHandler
             \* JSON without the key "valid"
             \/ Uncaught("KeyError")
             \* the POST itself fails or times out
             \/ Uncaught("RequestException")
    /\ UNCHANGED <<sess, courses, loopVars, elected, attempts, atFetch,
                   sinceFetch, examined>>

\* elect: the election request and the reading of msgTips (lines 182-194),
\* and, when elect returns, line 257
ElectSuccess ==
    /\ event' = "success"
    /\ elected' = elected \cup {target}
    /\ RemoveTarget("inner")
    /\ UNCHANGED <<session_expired, expired>>

ElectAction ==
    /\ pc = "elect"
    /\ Request("elect", sess)
    /\ \/ ElectSuccess
       \/ /\ \/ IllegalOperationHandler
             \* no element msgTips: AttributeError
             \/ Cardinality(expired) < MaxExpiries /\ SessionExpiredHandler
             \* the GET itself fails
             \/ Uncaught("RequestException")
          /\ elected' = elected
    /\ UNCHANGED <<sess, courses, loopVars, depth, attempts, atFetch,
                   sinceFetch, examined>>

\* sleep(10) of line 271.  The locals of the try statement are dead here:
\* the next iteration assigns each of them before it reads it, so their
\* values are dropped, and the per-iteration records are cleared.
Sleep ==
    /\ pc = "sleep"
    /\ pc' = "while"
    /\ slept' = TRUE
    /\ courses' = <<>>
    /\ idx' = 0
    /\ target' = NoTarget
    /\ search_result' = <<>>
    /\ cidx' = 0
    /\ course' = NoCourse
    /\ depth' = 0
    /\ attempts' = Zero
    /\ atFetch' = <<>>
    /\ examined' = {}
    /\ sinceFetch' = Idled
    /\ UNCHANGED <<targets, session_expired, sess, exc, event, op, expired,
                   elected, removals>>

Next ==
    \/ WhileTargets
    \/ Login
    \/ Backoff
    \/ Fetch
    \/ ForTarget
    \/ ForCourse
    \/ CaptchaGet
    \/ CaptchaPost
    \/ ElectAction
    \/ Sleep

Spec == Init /\ [][Next]_vars

\* ------------------------------------------------- the matcher on its own
\* classID texts: the same number in several forms, and different numbers
ClassIDTexts ==
    {<<7>>, <<0, 7>>, <<0, 0, 7>>, <<1>>, <<0, 1>>, <<1, 7>>, <<7, 0>>}

MatchTargets ==
    { [courseName |-> "A", classID |-> id, college |-> "X"] : id \in ClassIDTexts }

MatchCourses ==
    { MkCourse(nc[1], id, nc[2], 1, 0) :
          nc \in {<<"A", "X">>, <<"B", "X">>, <<"A", "Y">>}, id \in ClassIDTexts }

\* one target and one fetched directory, at line 232
MatchInit ==
    /\ \E t \in MatchTargets : targets = <<t>>
    /\ courses \in SeqsUpTo(MatchCourses, MaxCourses)
    /\ session_expired = FALSE
    /\ sess = 1
    /\ idx = 0
    /\ target = NoTarget
    /\ search_result = <<>>
    /\ cidx = 0
    /\ course = NoCourse
    /\ depth = 0
    /\ pc = "match"
    /\ exc = "none"
    /\ event = "fetched"
    /\ op = [kind |-> "fetch", sess |-> 1]
    /\ expired = {}
    /\ elected = {}
    /\ attempts = Zero
    /\ removals = Zero
    /\ atFetch = targets
    /\ slept = FALSE
    /\ sinceFetch = "not_idled"
    /\ examined = {}

\* lines 232-241: the loop variable and its search_result
MatchStep ==
    /\ pc = "match"
    /\ idx' = 1
    /\ target' = targets[1]
    /\ search_result' = SearchResult(courses, target')
    /\ pc' = "matched"
    /\ UNCHANGED <<targets, session_expired, sess, courses, cidx, course,
                   depth, exc, event, op, expired, elected, attempts, removals,
                   atFetch, slept, sinceFetch, examined>>

SpecMatch == MatchInit /\ [][MatchStep]_vars

\* the status the process exits with: sys.exit(1) at line 223; 0 when main
\* returns, also after logger.catch swallowed an exception; -1 = running
ExitStatus ==
    CASE pc = "fatal" -> 1
      [] pc \in {"done", "crashed"} -> 0
      [] OTHER -> -1

\* ------------------------------------------------------------------ claims
\* main is inside elect(): the CAPTCHA gate or the election request
ElectPcs == {"captcha_get", "captcha_post", "elect"}
\* main is inside the try statement of one iteration
BodyPcs == {"fetch", "for", "inner"} \cup ElectPcs
\* main has ended
EndPcs == {"done", "fatal", "crashed"}

\* the for loop over targets ran to its end in the iteration just finished
IterationCompleted == pc = "sleep" /\ event = "iteration_done"

\* no row of targets.csv occurs twice in s
Distinct(s) == \A i, j \in 1..Len(s) : s[i] = s[j] => i = j

HasMatch(t) == SearchResult(courses, t) # <<>>
HasElectableMatch(t) ==
    \E i \in 1..Len(courses) :
        MatchesTarget(courses[i], t) /\ courses[i].used_slots < courses[i].max_slots

\* C1: the target list changes only in a step that records a terminal outcome
\* (success, not-found, IllegalOperationError) of the current target, and the
\* change is the removal of that target; never in a step that handles a
\* NetworkError or a SessionExpiredError.
C1_RemovalOnlyOnTerminalOutcome ==
    [][targets' # targets =>
          /\ event' \in {"success", "not_found", "illegal"}
          /\ targets' = ListRemove(targets, target')
          /\ Len(targets') = Len(targets) - 1]_vars

C1_Witness ==
    /\ event = "illegal"
    /\ pc = "sleep"
    /\ Len(targets) < Len(atFetch)
    /\ target \notin Range(targets)

\* C2 (as claimed): once elect() has returned success for a target, no further
\* election attempt (CAPTCHA gate, election request) is made for it.
C2_NoAttemptAfterSuccess == pc \in ElectPcs => target \notin elected

\* C3 (as claimed): a run that ended after a failure of the CAPTCHA gate or
\* of the election request left no target behind.
C3_NoEndWithTargetsLeft ==
    (pc \in EndPcs /\ op.kind \in {"captcha_get", "captcha_post", "elect"})
        => (targets = <<>> \/ pc = "fatal")

\* C4 (as claimed): the step that handles SessionExpiredError leaves the target
\* list as it was, and when the error came from an election attempt the target
\* of that attempt is still in the list.
C4_SessionExpiredKeepsTargets ==
    [][(pc \in BodyPcs /\ event' = "session_expired") =>
          /\ targets' = targets
          /\ (pc \in ElectPcs => target \in Range(targets'))]_vars

\* C5: a session found expired is never used again: from the handling of
\* SessionExpiredError until a new session is acquired, main holds
\* session_expired = TRUE and is at no place that fetches the directory,
\* solves a CAPTCHA or elects; the last request never used a session that was
\* already known to be expired when it was sent.
C5_NoUseOfExpiredSession ==
    /\ sess \in expired => (session_expired = TRUE /\ pc \notin BodyPcs)
    /\ (op.sess \in expired /\ op.kind # "login") =>
           (op.sess = sess /\ pc \notin BodyPcs)

C5_Witness ==
    /\ expired # {}
    /\ sess \notin expired
    /\ pc = "elect"
    /\ session_expired = FALSE

\* C6 (as claimed): the step that handles IllegalOperationError for target T
\* removes one occurrence of T from the list and leaves the session flag alone.
C6_IllegalRemovesExactlyTarget ==
    [][(pc = "elect" /\ event' = "illegal") =>
          /\ target \in Range(targets)
          /\ targets' = ListRemove(targets, target)
          /\ Len(targets') = Len(targets) - 1
          /\ session_expired' = session_expired]_vars

\* C7 (as claimed): at the end of an iteration whose for loop ran to its end,
\* every target of the list (targets.csv without repeated rows) that had a
\* match with a free slot in the fetched directory was the subject of exactly
\* one election attempt.
C7_ExactlyOneAttempt ==
    (IterationCompleted /\ Distinct(atFetch)) =>
        \A t \in Range(atFetch) : HasElectableMatch(t) => attempts[t] = 1

\* C8 (as claimed): at the end of an iteration whose for loop ran to its end,
\* every target that was in the list (targets.csv without repeated rows) when
\* the directory was fetched and has no match in it has been removed, by
\* exactly one removal.
C8_UnmatchedRemoved ==
    (IterationCompleted /\ Distinct(atFetch)) =>
        \A t \in Range(atFetch) :
            ~HasMatch(t) => (t \notin Range(targets) /\ removals[t] = 1)

\* C9: elect() runs only for a course of the directory fetched in this
\* iteration that matches the current target and has used_slots < max_slots;
\* a target all of whose matches are full has no election attempt in the
\* iteration and stays in the list.
C9_ElectOnlyWithFreeSlot ==
    /\ pc \in ElectPcs =>
          /\ course \in Range(courses)
          /\ MatchesTarget(course, target)
          /\ course.used_slots < course.max_slots
    /\ \A t \in Range(atFetch) :
          (HasMatch(t) /\ ~HasElectableMatch(t)) =>
              (attempts[t] = 0 /\ t \in Range(targets))

\* the inner for went through the matches of target, all of them full
C9_Witness ==
    /\ IterationCompleted
    /\ HasMatch(target)
    /\ ~HasElectableMatch(target)
    /\ cidx = Len(search_result)
    /\ course = search_result[cidx]
    /\ course.used_slots = course.max_slots
    /\ target \in Range(targets)
    /\ attempts[target] = 0

\* C10 (as claimed): a transport failure of a request sent during an iteration
\* (directory fetch, CAPTCHA image, CAPTCHA answer, election) is handled as
\* NetworkError: main goes on to the sleep of line 271 with the target list
\* and the session flag unchanged.
C10_TransportFailureIsNetworkError ==
    [][(pc \in {"fetch"} \cup ElectPcs
           /\ (event' = "network_error" \/ exc' = "RequestException")) =>
          /\ pc' = "sleep"
          /\ event' = "network_error"
          /\ UNCHANGED <<targets, session_expired>>]_vars

\* C11: the step in which session acquisition fails with AuthenticationError
\* ends the program with exit status 1, and no step follows it: no further
\* acquisition, fetch or election.
C11_AuthenticationErrorIsFatal ==
    [][/\ (pc = "login" /\ event' = "auth_error") =>
              (pc' = "fatal" /\ ExitStatus' = 1 /\ targets' = targets)
       /\ pc # "fatal"]_vars

C11_Witness ==
    /\ pc = "fatal"
    /\ event = "auth_error"
    /\ op.kind = "login"
    /\ ExitStatus = 1
    /\ targets # <<>>

\* C12: a NetworkError of session acquisition leaves the flag at "no session"
\* and the target list unchanged and leads to the sleep of line 227; after
\* the sleep acquisition is tried again; the flag is cleared only by an
\* acquisition that succeeded.
C12_LoginNetworkErrorRetries ==
    [][/\ (pc = "login" /\ event' = "login_network_error") =>
              /\ pc' = "backoff"
              /\ session_expired' = TRUE
              /\ UNCHANGED <<targets, sess>>
       /\ pc = "backoff" =>
              /\ pc' = "login"
              /\ slept' = TRUE
              /\ session_expired' = TRUE
              /\ UNCHANGED <<targets, sess>>
       /\ (session_expired /\ ~session_expired') =>
              (pc = "login" /\ event' = "got_session" /\ sess' = sess + 1)]_vars

\* acquisition failed, main slept, and acquisition is about to be tried again
C12_Witness ==
    /\ pc = "login"
    /\ event = "backoff"
    /\ slept = TRUE
    /\ session_expired = TRUE
    /\ targets # <<>>

\* C13 (as claimed): targets.remove(t) is called only for a target that is
\* still in the list: no target is removed a second time.
C13_NoSecondRemoval ==
    [][removals' # removals => target' \in Range(targets)]_vars

\* C14 (as claimed): a run does not end, after a session was acquired and the
\* directory fetched, while a target other than the one being elected is
\* still in the list: such a target would never be examined again.
C14_NoTargetAbandoned ==
    (pc = "crashed" /\ op.kind \in {"captcha_get", "captcha_post", "elect"})
        => Range(targets) \subseteq {target}

\* C15: whenever main is about to fetch the directory again, sleep(10) has
\* run since the previous fetch; and every iteration that ended (completed or
\* abandoned by a handled error) goes through the sleep of line 271 before
\* the loop head.
C15_IdleBetweenFetches ==
    /\ pc = "fetch" => sinceFetch \in {"no_fetch_yet", "idled"}
    /\ (pc = "while" /\ sinceFetch # "no_fetch_yet") =>
           (slept = TRUE /\ sinceFetch = "idled")

\* a second fetch is due, after an iteration and its sleep
C15_Witness ==
    /\ pc = "fetch"
    /\ sinceFetch = "idled"
    /\ slept = TRUE
    /\ op.kind \in {"fetch", "elect"}

\* C17 (as claimed): at the end of an iteration that was not abandoned by
\* SessionExpiredError or NetworkError, every target that was in the list
\* (targets.csv without repeated rows) when the directory was fetched and is
\* still in it had its search_result built in that iteration.
C17_NoPendingTargetSkipped ==
    (pc = "sleep" /\ event \in {"iteration_done", "illegal"}
        /\ Distinct(atFetch)) =>
        \A t \in Range(atFetch) : t \in Range(targets) => t \in examined

\* C18: the election request is sent only right after a CAPTCHA submission
\* that the portal accepted, made with the same session; and when the
\* submission raises SessionExpiredError main goes to its handler without the
\* election request being sent.
C18_CaptchaGatesElection ==
    [][/\ (op'.kind = "elect" /\ op.kind # "elect") =>
              /\ pc = "elect"
              /\ event = "captcha_ok"
              /\ op.kind = "captcha_post"
              /\ op.sess = op'.sess
       /\ (pc = "captcha_post" /\ event' = "session_expired") =>
              /\ op'.kind = "captcha_post"
              /\ pc' = "sleep"
              /\ session_expired' = TRUE]_vars

\* an election request was sent after one rejected and one accepted answer
C18_Witness ==
    /\ op.kind = "elect"
    /\ depth >= 1
    /\ event \in {"success", "illegal"}

\* C19 (as claimed): the step that submits a CAPTCHA answer either stays in
\* the solver (a new challenge is requested), or returns success to elect, or
\* raises SessionExpiredError; the solver ends in no other way.
C19_SolverEndsInTwoWays ==
    [][pc = "captcha_post" =>
          \/ pc' \in {"captcha_get", "elect"}
          \/ event' = "session_expired"]_vars

\* C20: inside the try statement main holds a session that is the last one
\* acquired and is not known to be expired; from the for loop on, the
\* directory was fetched in this iteration and every request since then used
\* that session; the course being elected is a row of that directory.
C20_CurrentSessionAndDirectory ==
    /\ pc \in BodyPcs =>
          /\ session_expired = FALSE
          /\ sess >= 1
          /\ sess \notin expired
          /\ \A x \in expired : x < sess
    /\ pc \in BodyPcs \ {"fetch"} =>
          /\ atFetch # <<>>
          /\ op.kind \in {"fetch", "captcha_get", "captcha_post", "elect"}
          /\ op.sess = sess
    /\ pc \in ElectPcs =>
          /\ course \in Range(courses)
          /\ course = search_result[cidx]
          /\ search_result = SearchResult(courses, target)

\* an election in a later iteration, with the second session
C20_Witness ==
    /\ pc = "elect"
    /\ sess = 2
    /\ expired = {1}
    /\ op = [kind |-> "captcha_post", sess |-> 2]
    /\ course \in Range(courses)

\* a decimal text without its leading zeros (the last digit always stays)
RECURSIVE StripZeros(_)
StripZeros(s) ==
    IF Len(s) > 1 /\ Head(s) = 0 THEN StripZeros(Tail(s)) ELSE s

\* two decimal texts denote the same number
SameNumber(a, b) == StripZeros(a) = StripZeros(b)

\* C16: search_result holds, in the order of the directory, exactly the
\* courses whose name and college are the target's and whose classID denotes
\* the same number as the target's, whatever the form of the two texts.
C16_MatcherIsNumeric ==
    pc = "matched" =>
        search_result =
            SelectSeq(courses,
                      LAMBDA c : /\ c.name = target.courseName
                                 /\ c.college = target.college
                                 /\ SameNumber(c.classID, target.classID))

\* "07" matched a row "7" and left out a row with another number
C16_Witness ==
    /\ pc = "matched"
    /\ target.classID = <<0, 7>>
    /\ Len(courses) = 2
    /\ Len(search_result) = 1
    /\ search_result[1].classID = <<7>>
    /\ \E i \in 1..2 : courses[i].name = "A" /\ courses[i].college = "X"
                         /\ courses[i].classID = <<1, 7>>

====
